---- MODULE Spec2Model ----
(***************************************************************************)
(* Model of FileDeleter.DeleteFilesWithTimeout (src/main.go and            *)
(* src/cmd/console/main.go hold the same function): a pool of worker       *)
(* goroutines drains a buffered channel of file tasks, each attempt racing *)
(* a detached os.Remove against a per-attempt timeout, failed attempts     *)
(* being sent back on the channel, which the producer goroutine closes     *)
(* after the initial submission.                                           *)
(***************************************************************************)
EXTENDS Naturals, Sequences, FiniteSets

VARIABLES
    entries,      \* files []os.DirEntry: sequence of [Name, IsDir]
    workerCount,  \* parameter workerCount
    maxRetries,   \* parameter maxRetries
    mode,         \* environment: how os.Remove behaves on each name
    fs,           \* names present in the directory
    fileChan,     \* buffered channel of FileTask
    fileClosed,   \* close(fileChan) has happened
    errorChan,    \* buffered channel of error
    errorClosed,  \* close(errorChan) has happened
    wg,           \* sync.WaitGroup counter
    prod,         \* producer goroutine: index of the next entry of files
    pc,           \* per worker: position in the worker function
    task,         \* per worker: the FileTask held (loop variable task)
    ctxDone,      \* per worker: ctx.Done() of the current attempt is ready
    pending,      \* per worker: the error about to be sent on errorChan
    errChan,      \* per worker: the attempt's errChan (buffer of 1)
    running,      \* per worker: the attempt's delete goroutine has not sent yet
    abandoned,    \* per name: delete goroutines still running after a timeout
    mainPc,       \* position of DeleteFilesWithTimeout itself
    result,       \* value returned by DeleteFilesWithTimeout
    crashed,      \* the process has been terminated by an unrecovered panic
    submitted,    \* history: tasks sent by the producer, in order
    emitted,      \* history: errors sent on errorChan, in order
    nAttempt,     \* history: per name, delete goroutines started
    nDeleted,     \* history: per name, "Deleted file" lines printed
    nTimeout,     \* history: per name, attempts that ended in the timeout case
    early,        \* history: per worker, the attempt's delete returned before
                  \* the attempt's deadline passed
    allOnTime     \* history: every delete so far returned nil before the
                  \* deadline of its attempt

vars == <<entries, workerCount, maxRetries, mode, fs, fileChan, fileClosed,
          errorChan, errorClosed, wg, prod, pc, task, ctxDone, pending,
          errChan, running, abandoned, mainPc, result, crashed, submitted, emitted,
          nAttempt, nDeleted, nTimeout, early, allOnTime>>

config == <<entries, workerCount, maxRetries, mode>>
history == <<submitted, emitted, nAttempt, nDeleted, nTimeout>>
timing == <<early, allOnTime>>

----
\* Bounds of the model.
MaxEntries == 2
MaxWorkers == 2
MaxRetriesBound == 1

\* The extension the program is configured with: ".rdp".
Extension == <<".", "r", "d", "p">>

\* File names a directory listing is drawn from, in the byte order os.ReadDir
\* sorts by: "a.rdp", "b.rdp", "c.txt".
NamePool ==
    << <<"a", ".", "r", "d", "p">>,
       <<"b", ".", "r", "d", "p">>,
       <<"c", ".", "t", "x", "t">> >>

Names == {NamePool[i] : i \in 1..Len(NamePool)}

\* Behaviours of os.Remove on an existing file: "ok" removes it and returns nil,
\* "deny" returns an error (permission denied) and leaves it.
Modes == {"ok", "deny"}

Workers == 1..MaxWorkers

NoTask == [FileName |-> <<>>, Retries |-> 0]
NoErr == [kind |-> "none", retries |-> 0, path |-> <<>>, cause |-> "nil"]
NoResult == [returned |-> FALSE, failed |-> FALSE, errors |-> <<>>]

----
\* strings.HasSuffix(s, suffix)
HasSuffix(s, suffix) ==
    /\ Len(s) >= Len(suffix)
    /\ SubSeq(s, Len(s) - Len(suffix) + 1, Len(s)) = suffix

\* The producer's filter with the IsDir test left out.
Matches_NoDirCheck(e) == HasSuffix(e.Name, Extension)

\* The producer's filter: !file.IsDir() && strings.HasSuffix(file.Name(), fd.Extension)
Matches(e) == ~e.IsDir /\ HasSuffix(e.Name, Extension)

\* The listing with the names of index set S, in order, D the directories.
RECURSIVE ListOf(_, _)
ListOf(S, D) ==
    IF S = {} THEN <<>>
    ELSE LET m == CHOOSE x \in S : \A y \in S : x <= y
         IN  <<[Name |-> NamePool[m], IsDir |-> m \in D]>> \o ListOf(S \ {m}, D)

\* Directory listings: up to MaxEntries names of the pool; a directory is one of
\* the names that carry the extension, the entries the IsDir test is there for.
Listings ==
    {ListOf(S, D) : S \in {T \in SUBSET (1..Len(NamePool)) : Cardinality(T) <= MaxEntries},
                    D \in SUBSET {i \in 1..Len(NamePool) : HasSuffix(NamePool[i], Extension)}}

EntryNames(es) == {es[i].Name : i \in 1..Len(es)}
MatchingNames(es) == {es[i].Name : i \in {j \in 1..Len(es) : Matches(es[j])}}

\* The channels sized by the number of workers: make(chan ..., workerCount).
Cap_Workers == workerCount

\* The channels made one element short: make(chan ..., len(files)-1).
Cap_OneShort == IF Len(entries) > 0 THEN Len(entries) - 1 ELSE 0

\* cap(fileChan) = cap(errorChan) = len(files)
Cap == Len(entries)

\* Worker goroutines started by the loop "for i := 0; i < workerCount; i++",
\* with the loop running once too often.
StartWorkers_OneMore(n) == [w \in Workers |-> IF w <= n + 1 THEN "recv" ELSE "idle"]

\* Worker goroutines started by the loop "for i := 0; i < workerCount; i++".
StartWorkers(n) == [w \in Workers |-> IF w <= n THEN "recv" ELSE "idle"]

\* The error collection, reporting a failure only for more than one error.
CombinedResult_MoreThanOne(errs) ==
    [returned |-> TRUE, failed |-> Len(errs) > 1, errors |-> errs]

\* The error collection and the return value: errors joined when there are any,
\* nil otherwise.
CombinedResult(errs) ==
    [returned |-> TRUE, failed |-> Len(errs) > 0, errors |-> errs]

----
Init ==
    /\ entries \in Listings
    /\ workerCount \in 1..MaxWorkers
    /\ maxRetries \in 0..MaxRetriesBound
    /\ mode \in {m \in [Names -> Modes] :
                    \A n \in Names : n \notin MatchingNames(entries) => m[n] = "ok"}
    /\ fs = EntryNames(entries)
    /\ fileChan = <<>>
    /\ fileClosed = FALSE
    /\ errorChan = <<>>
    /\ errorClosed = FALSE
    /\ wg = workerCount
    /\ prod = 1
    /\ pc = StartWorkers(workerCount)
    /\ task = [w \in Workers |-> NoTask]
    /\ ctxDone = [w \in Workers |-> FALSE]
    /\ pending = [w \in Workers |-> NoErr]
    /\ errChan = [w \in Workers |-> <<>>]
    /\ running = [w \in Workers |-> FALSE]
    /\ abandoned = [n \in Names |-> 0]
    /\ mainPc = "wait"
    /\ result = NoResult
    /\ crashed = FALSE
    /\ submitted = <<>>
    /\ emitted = <<>>
    /\ nAttempt = [n \in Names |-> 0]
    /\ nDeleted = [n \in Names |-> 0]
    /\ nTimeout = [n \in Names |-> 0]
    /\ early = [w \in Workers |-> FALSE]
    /\ allOnTime = TRUE

----
\* Producer goroutine: an entry that passes the filter is sent on fileChan.
ProducerSend ==
    /\ ~crashed
    /\ prod <= Len(entries)
    /\ Matches(entries[prod])
    /\ Len(fileChan) < Cap
    /\ fileChan' = Append(fileChan, [FileName |-> entries[prod].Name, Retries |-> 0])
    /\ submitted' = Append(submitted, [FileName |-> entries[prod].Name, Retries |-> 0])
    /\ prod' = prod + 1
    /\ UNCHANGED <<running, timing, config, fs, fileClosed, errorChan, errorClosed, wg, pc, task,
                   ctxDone, pending, errChan, abandoned, mainPc, result, crashed, emitted,
                   nAttempt, nDeleted, nTimeout>>

\* Producer goroutine: an entry that does not pass the filter is skipped.
ProducerSkip ==
    /\ ~crashed
    /\ prod <= Len(entries)
    /\ ~Matches(entries[prod])
    /\ prod' = prod + 1
    /\ UNCHANGED <<running, timing, config, fs, fileChan, fileClosed, errorChan, errorClosed, wg, pc,
                   task, ctxDone, pending, errChan, abandoned, mainPc, result, crashed, history>>

\* Producer goroutine: close(fileChan) written inside the loop, so that it runs
\* at the end of the first iteration.
ProducerClose_InLoop ==
    /\ ~crashed
    /\ prod > 1
    /\ ~fileClosed
    /\ fileClosed' = TRUE
    /\ UNCHANGED <<running, timing, config, fs, fileChan, errorChan, errorClosed, wg, prod, pc, task,
                   ctxDone, pending, errChan, abandoned, mainPc, result, crashed, history>>

\* Producer goroutine: close(fileChan) after the loop.
ProducerClose ==
    /\ ~crashed
    /\ prod = Len(entries) + 1
    /\ ~fileClosed
    /\ fileClosed' = TRUE
    /\ UNCHANGED <<running, timing, config, fs, fileChan, errorChan, errorClosed, wg, prod, pc, task,
                   ctxDone, pending, errChan, abandoned, mainPc, result, crashed, history>>

----
\* Workers blocked in the receive of the range loop hold no task and no attempt:
\* they are interchangeable, and the one the runtime hands a task (or the close)
\* to is taken to be the lowest-numbered of them.
NextReceiver(w) ==
    /\ pc[w] = "recv"
    /\ \A v \in Workers : v < w => pc[v] # "recv"

\* Worker: "for task := range fileChan" receives a task; the attempt's context
\* and errChan are created and the delete goroutine is started.
WorkerRecv(w) ==
    /\ ~crashed
    /\ NextReceiver(w)
    /\ fileChan # <<>>
    /\ task' = [task EXCEPT ![w] = Head(fileChan)]
    /\ nAttempt' = [nAttempt EXCEPT ![Head(fileChan).FileName] = @ + 1]
    /\ fileChan' = Tail(fileChan)
    /\ running' = [running EXCEPT ![w] = TRUE]
    /\ pc' = [pc EXCEPT ![w] = "select"]
    /\ UNCHANGED <<timing, config, fs, fileClosed, errorChan, errorClosed, wg, prod, ctxDone,
                   pending, errChan, abandoned, mainPc, result, crashed, submitted,
                   emitted, nDeleted, nTimeout>>

\* Worker: the range loop ends on the closed, drained channel, with the
\* deferred wg.Done() left out.
WorkerExit_NoDone(w) ==
    /\ ~crashed
    /\ NextReceiver(w)
    /\ fileChan = <<>>
    /\ fileClosed
    /\ pc' = [pc EXCEPT ![w] = "done"]
    /\ UNCHANGED <<running, timing, config, fs, fileChan, fileClosed, errorChan, errorClosed, prod,
                   wg, task, ctxDone, pending, errChan, abandoned, mainPc, result,
                   crashed, history>>

\* Worker: the range loop ends on the closed, drained channel; deferred wg.Done().
WorkerExit(w) ==
    /\ ~crashed
    /\ NextReceiver(w)
    /\ fileChan = <<>>
    /\ fileClosed
    /\ pc' = [pc EXCEPT ![w] = "done"]
    /\ wg' = wg - 1
    /\ UNCHANGED <<running, timing, config, fs, fileChan, fileClosed, errorChan, errorClosed, prod,
                   task, ctxDone, pending, errChan, abandoned, mainPc, result, crashed,
                   history>>

\* What os.Remove can do on a name: the error it returns and whether the file goes.
RemoveOutcomes(name) ==
    IF name \notin fs THEN {[err |-> "ENOENT", removed |-> FALSE]}
    ELSE IF mode[name] = "ok" THEN {[err |-> "nil", removed |-> TRUE]}
    ELSE {[err |-> "EPERM", removed |-> FALSE]}

\* Detached goroutine of the attempt worker w waits on: errChan <- os.Remove(filePath).
\* It sends once and ends.
DeleteAttempt(w) ==
    /\ ~crashed
    /\ pc[w] = "select"
    /\ running[w]
    /\ Len(errChan[w]) < 1
    /\ \E o \in RemoveOutcomes(task[w].FileName) :
        /\ fs' = IF o.removed THEN fs \ {task[w].FileName} ELSE fs
        /\ errChan' = [errChan EXCEPT ![w] = Append(@, o.err)]
        /\ allOnTime' = (allOnTime /\ o.err = "nil")
    /\ running' = [running EXCEPT ![w] = FALSE]
    /\ early' = [early EXCEPT ![w] = ~ctxDone[w]]
    /\ UNCHANGED <<config, fileChan, fileClosed, errorChan, errorClosed, wg, prod, pc,
                   task, ctxDone, pending, abandoned, mainPc, result, crashed, history>>

\* Detached goroutine whose worker took the timeout case, with errChan made once
\* per worker before the loop: the late result goes to the channel a worker
\* is using now, when that has room.
AbandonedDelete_SharedChan(n) ==
    /\ ~crashed
    /\ abandoned[n] > 0
    /\ \E w \in Workers : \E o \in RemoveOutcomes(n) :
        /\ Len(errChan[w]) < 1
        /\ fs' = IF o.removed THEN fs \ {n} ELSE fs
        /\ errChan' = [errChan EXCEPT ![w] = Append(@, o.err)]
    /\ abandoned' = [abandoned EXCEPT ![n] = @ - 1]
    /\ UNCHANGED <<running, timing, config, fileChan, fileClosed, errorChan, errorClosed, wg, prod, pc,
                   task, ctxDone, pending, mainPc, result, crashed, history>>

\* Detached goroutine whose worker took the timeout case: errChan <- os.Remove(filePath)
\* on an errChan nobody receives from; the send fills its buffer and the goroutine ends.
AbandonedDelete(n) ==
    /\ ~crashed
    /\ abandoned[n] > 0
    /\ \E o \in RemoveOutcomes(n) :
        fs' = IF o.removed THEN fs \ {n} ELSE fs
    /\ abandoned' = [abandoned EXCEPT ![n] = @ - 1]
    /\ UNCHANGED <<running, timing, config, fileChan, fileClosed, errorChan, errorClosed, wg, prod, pc,
                   task, ctxDone, pending, errChan, mainPc, result, crashed, history>>

\* The deadline of the attempt's context passes: ctx.Done() becomes ready.
CtxTimeout(w) ==
    /\ ~crashed
    /\ pc[w] = "select"
    /\ ~ctxDone[w]
    /\ ctxDone' = [ctxDone EXCEPT ![w] = TRUE]
    /\ allOnTime' = (allOnTime /\ ~running[w])
    /\ UNCHANGED <<running, early, config, fs, fileChan, fileClosed, errorChan, errorClosed, wg, prod,
                   pc, task, pending, errChan, abandoned, mainPc, result, crashed,
                   history>>

\* Both failure cases of the select, with the retry test written
\* "task.Retries <= maxRetries".
OnFailure_OneRetryMore(w, kind, cause) ==
    IF task[w].Retries <= maxRetries
    THEN /\ task' = [task EXCEPT ![w].Retries = @ + 1]
         /\ pc' = [pc EXCEPT ![w] = "requeue"]
         /\ UNCHANGED pending
    ELSE /\ pending' = [pending EXCEPT ![w] =
                [kind |-> kind, retries |-> maxRetries,
                 path |-> task[w].FileName, cause |-> cause]]
         /\ pc' = [pc EXCEPT ![w] = "emit"]
         /\ UNCHANGED task

\* Both failure cases of the select: the task goes back to the channel with
\* Retries + 1 while Retries < maxRetries, otherwise an error goes to errorChan.
OnFailure(w, kind, cause) ==
    IF task[w].Retries < maxRetries
    THEN /\ task' = [task EXCEPT ![w].Retries = @ + 1]
         /\ pc' = [pc EXCEPT ![w] = "requeue"]
         /\ UNCHANGED pending
    ELSE /\ pending' = [pending EXCEPT ![w] =
                [kind |-> kind, retries |-> maxRetries,
                 path |-> task[w].FileName, cause |-> cause]]
         /\ pc' = [pc EXCEPT ![w] = "emit"]
         /\ UNCHANGED task

\* Worker: case <-ctx.Done(). A delete goroutine that has not sent yet is left
\* running; a result already in errChan is dropped with it.
SelectTimeout(w) ==
    /\ ~crashed
    /\ pc[w] = "select"
    /\ ctxDone[w]
    /\ OnFailure(w, "timeout", "nil")
    /\ abandoned' = IF running[w]
                    THEN [abandoned EXCEPT ![task[w].FileName] = @ + 1]
                    ELSE abandoned
    /\ errChan' = [errChan EXCEPT ![w] = <<>>]
    /\ running' = [running EXCEPT ![w] = FALSE]
    /\ early' = [early EXCEPT ![w] = FALSE]
    /\ ctxDone' = [ctxDone EXCEPT ![w] = FALSE]
    /\ nTimeout' = [nTimeout EXCEPT ![task[w].FileName] = @ + 1]
    /\ UNCHANGED <<allOnTime, config, fs, fileChan, fileClosed, errorChan, errorClosed, wg, prod,
                   mainPc, result, crashed, submitted, emitted, nAttempt, nDeleted>>

\* Worker: case err := <-errChan.
SelectResult(w) ==
    /\ ~crashed
    /\ pc[w] = "select"
    /\ errChan[w] # <<>>
    /\ IF Head(errChan[w]) # "nil"
       THEN /\ OnFailure(w, "failed", Head(errChan[w]))
            /\ UNCHANGED nDeleted
       ELSE /\ nDeleted' = [nDeleted EXCEPT ![task[w].FileName] = @ + 1]
            /\ task' = [task EXCEPT ![w] = NoTask]
            /\ pc' = [pc EXCEPT ![w] = "recv"]
            /\ UNCHANGED pending
    /\ errChan' = [errChan EXCEPT ![w] = Tail(@)]
    /\ early' = [early EXCEPT ![w] = FALSE]
    /\ ctxDone' = [ctxDone EXCEPT ![w] = FALSE]
    /\ UNCHANGED <<running, allOnTime, config, fs, fileChan, fileClosed, errorChan, errorClosed, wg, prod,
                   abandoned, mainPc, result, crashed, submitted, emitted, nAttempt,
                   nTimeout>>

\* Worker: fileChan <- task on the open channel.
Requeue(w) ==
    /\ ~crashed
    /\ pc[w] = "requeue"
    /\ ~fileClosed
    /\ Len(fileChan) < Cap
    /\ fileChan' = Append(fileChan, task[w])
    /\ task' = [task EXCEPT ![w] = NoTask]
    /\ pc' = [pc EXCEPT ![w] = "recv"]
    /\ UNCHANGED <<running, timing, config, fs, fileClosed, errorChan, errorClosed, wg, prod, ctxDone,
                   pending, errChan, abandoned, mainPc, result, crashed, history>>

\* Worker: fileChan <- task on the closed channel panics ("send on closed
\* channel"); the goroutine unwinds, running the deferred wg.Done().
RequeuePanic(w) ==
    /\ ~crashed
    /\ pc[w] = "requeue"
    /\ fileClosed
    /\ pc' = [pc EXCEPT ![w] = "panicked"]
    /\ wg' = wg - 1
    /\ UNCHANGED <<running, timing, config, fs, fileChan, fileClosed, errorChan, errorClosed, prod,
                   task, ctxDone, pending, errChan, abandoned, mainPc, result, crashed, history>>

\* The runtime ends the process after an unrecovered panic; until it does the
\* other goroutines keep running.
Crash ==
    /\ ~crashed
    /\ \E w \in Workers : pc[w] = "panicked"
    /\ crashed' = TRUE
    /\ UNCHANGED <<running, timing, config, fs, fileChan, fileClosed, errorChan, errorClosed, wg, prod,
                   pc, task, ctxDone, pending, errChan, abandoned, mainPc, result, history>>

\* Worker: errorChan <- fmt.Errorf(...). errorChan is closed only after wg.Wait().
EmitError(w) ==
    /\ ~crashed
    /\ pc[w] = "emit"
    /\ ~errorClosed
    /\ Len(errorChan) < Cap
    /\ errorChan' = Append(errorChan, pending[w])
    /\ emitted' = Append(emitted, pending[w])
    /\ pending' = [pending EXCEPT ![w] = NoErr]
    /\ task' = [task EXCEPT ![w] = NoTask]
    /\ pc' = [pc EXCEPT ![w] = "recv"]
    /\ UNCHANGED <<running, timing, config, fs, fileChan, fileClosed, errorClosed, wg, prod, ctxDone,
                   errChan, abandoned, mainPc, result, crashed, submitted, nAttempt, nDeleted,
                   nTimeout>>

\* DeleteFilesWithTimeout: wg.Wait() returns, close(errorChan).
MainWait ==
    /\ ~crashed
    /\ mainPc = "wait"
    /\ wg = 0
    /\ errorClosed' = TRUE
    /\ mainPc' = "collect"
    /\ UNCHANGED <<running, timing, config, fs, fileChan, fileClosed, errorChan, wg, prod, pc, task,
                   ctxDone, pending, errChan, abandoned, result, crashed, history>>

\* DeleteFilesWithTimeout: "for err := range errorChan" drains the closed
\* channel, then the function returns.
MainCollect ==
    /\ ~crashed
    /\ mainPc = "collect"
    /\ errorClosed
    /\ result' = CombinedResult(errorChan)
    /\ errorChan' = <<>>
    /\ mainPc' = "returned"
    /\ UNCHANGED <<running, timing, config, fs, fileChan, fileClosed, errorClosed, wg, prod, pc, task,
                   ctxDone, pending, errChan, abandoned, crashed, history>>

Next ==
    \/ ProducerSend
    \/ ProducerSkip
    \/ ProducerClose
    \/ \E w \in Workers : WorkerRecv(w)
    \/ \E w \in Workers : WorkerExit(w)
    \/ \E w \in Workers : DeleteAttempt(w)
    \/ \E n \in Names : AbandonedDelete(n)
    \/ \E w \in Workers : CtxTimeout(w)
    \/ \E w \in Workers : SelectTimeout(w)
    \/ \E w \in Workers : SelectResult(w)
    \/ \E w \in Workers : Requeue(w)
    \/ \E w \in Workers : RequeuePanic(w)
    \/ \E w \in Workers : EmitError(w)
    \/ MainWait
    \/ MainCollect
    \/ Crash

Spec == Init /\ [][Next]_vars

\* Scheduling: every goroutine that can take a step eventually does, timers
\* fire, and a panicking process is ended by the runtime. os.Remove itself is
\* given no fairness: a delete may never return.
Fairness ==
    /\ WF_vars(ProducerSend)
    /\ WF_vars(ProducerSkip)
    /\ WF_vars(ProducerClose)
    /\ \A w \in Workers :
        /\ WF_vars(WorkerRecv(w))
        /\ WF_vars(WorkerExit(w))
        /\ WF_vars(CtxTimeout(w))
        /\ WF_vars(SelectTimeout(w))
        /\ WF_vars(SelectResult(w))
        /\ WF_vars(Requeue(w))
        /\ WF_vars(RequeuePanic(w))
        /\ WF_vars(EmitError(w))
    /\ WF_vars(MainWait)
    /\ WF_vars(MainCollect)
    /\ WF_vars(Crash)

FairSpec == Spec /\ Fairness

----
\* Vocabulary of the properties.

\* The run has ended: the function returned or the process was terminated.
Ended == crashed \/ mainPc = "returned"

Returned == mainPc = "returned"

\* Terminal errors sent for name n, of any kind and of one kind.
ErrCount(n) == Cardinality({i \in 1..Len(emitted) : emitted[i].path = n})
ErrCountOf(n, kind) ==
    Cardinality({i \in 1..Len(emitted) :
                    emitted[i].path = n /\ emitted[i].kind = kind})

\* A worker holds a task: it received it and has neither finished it (deleted,
\* terminal error sent) nor put it back.
Holding(w) == pc[w] \in {"select", "requeue", "emit", "panicked"}

\* Name n reached exactly one of the two outcomes.
OneOutcome(n) ==
    \/ nDeleted[n] = 1 /\ ErrCount(n) = 0
    \/ nDeleted[n] = 0 /\ ErrCount(n) = 1

AllTasksTerminal ==
    /\ \A i \in 1..Len(submitted) : OneOutcome(submitted[i].FileName)
    /\ fileChan = <<>>
    /\ \A w \in Workers : ~Holding(w)

AllWorkersExited == \A w \in Workers : pc[w] \in {"done", "idle"}

NoPanic == \A w \in Workers : pc[w] # "panicked"

----
\* C1: when the run ends, every task the producer created has exactly one
\* outcome (reported deleted, or one terminal error), and no task is left in
\* the queue or held by a worker.
C1_ExactlyOneOutcome == Ended => AllTasksTerminal

\* C2: no worker sends on the task queue after it has been closed (in Go such a
\* send panics, which is the state this excludes).
C2_NoRequeueAfterClose == \A w \in Workers : pc[w] # "panicked"

\* C3: a matching file whose delete returns an error on every attempt, none of
\* them timing out, has had maxRetries + 1 attempts when the run ends, exactly
\* one "failed to delete" error, and the run returned a combined failure
\* holding that error.
C3_AlwaysFailingFile ==
    \A n \in MatchingNames(entries) :
        (Ended /\ mode[n] = "deny" /\ nTimeout[n] = 0) =>
            /\ nAttempt[n] = maxRetries + 1
            /\ ErrCountOf(n, "failed") = 1
            /\ ErrCount(n) = 1
            /\ result.returned /\ result.failed
            /\ \E i \in 1..Len(result.errors) :
                   result.errors[i].path = n /\ result.errors[i].kind = "failed"

\* C4: an attempt that ends in a delete error or a timeout puts its task back
\* in the queue exactly when its Retries was < maxRetries, with Retries one
\* greater; at Retries = maxRetries the task is not put back and a terminal
\* error is sent.
C4_RequeueIffBelowMax ==
    [][\A w \in Workers :
          /\ (pc[w] = "select" /\ pc'[w] \in {"requeue", "emit"}) =>
                IF task[w].Retries < maxRetries
                THEN /\ pc'[w] = "requeue"
                     /\ task'[w] = [task[w] EXCEPT !.Retries = @ + 1]
                ELSE /\ pc'[w] = "emit"
                     /\ task'[w] = task[w]
          /\ (pc[w] = "requeue" /\ pc'[w] # "requeue") =>
                fileChan' = Append(fileChan, task[w])
          /\ (pc[w] = "emit" /\ pc'[w] # "emit") =>
                /\ fileChan' = fileChan
                /\ emitted' = Append(emitted, pending[w])
                /\ pending[w].path = task[w].FileName]_vars

\* C5: a retry that finds the file already gone (removed by an abandoned
\* earlier delete of the same run) is treated as success: no terminal error is
\* sent for a delete that failed because the file no longer exists.
C5_IdempotentDelete ==
    \A i \in 1..Len(emitted) : emitted[i].cause # "ENOENT"

\* C6: once DeleteFilesWithTimeout has returned, it returned a combined failure
\* exactly when a terminal error was sent during the run, and the combined
\* failure holds every terminal error sent, each once.
C6_CombinedFailureIffErrors ==
    Returned =>
        /\ result.returned
        /\ result.failed <=> Len(emitted) > 0
        /\ result.errors = emitted

\* C6 witness: a run returned a combined failure holding two terminal errors.
C6_Witness == Returned /\ result.failed /\ Len(result.errors) = 2

\* C7: when DeleteFilesWithTimeout returns success, every non-directory entry
\* whose name ends with the extension is gone from the directory.
C7_SuccessMeansAllDeleted ==
    (Returned /\ ~result.failed) =>
        \A n \in MatchingNames(entries) : n \notin fs

\* C8: under fair scheduling every run eventually returns, with every task in
\* a terminal state and every worker out of its loop.
C8_EventuallyReturns ==
    <>(Returned /\ AllTasksTerminal /\ AllWorkersExited)

\* Tasks in attempt: a delete was started for the task and the worker holding
\* it has not handled the outcome yet.
InAttempt == {w \in Workers : pc[w] = "select"}

\* C9: at most workerCount tasks are in attempt at once.
C9_AtMostNInAttempt == Cardinality(InAttempt) <= workerCount

\* C9 witness: with one worker and two tasks, one task is in attempt while the
\* other waits in the queue.
C9_Witness ==
    /\ workerCount = 1
    /\ Cardinality(InAttempt) = 1
    /\ Len(fileChan) = 1

\* The name ends with the extension: it is some prefix followed by it.
EndsWithExtension(name) ==
    /\ Len(name) >= Len(Extension)
    /\ name = SubSeq(name, 1, Len(name) - Len(Extension)) \o Extension

\* Names of the entries that are not directories and end with the extension.
ExpectedNames ==
    {entries[i].Name :
        i \in {j \in 1..Len(entries) :
                  ~entries[j].IsDir /\ EndsWithExtension(entries[j].Name)}}

\* C10: the producer enqueues one task with Retries = 0 per entry that is not
\* a directory and ends with the extension, and nothing else; the other
\* entries are never enqueued, never attempted and stay in the directory.
C10_Filtering ==
    LET expected == ExpectedNames
    IN
      /\ \A i \in 1..Len(submitted) :
            /\ submitted[i].Retries = 0
            /\ submitted[i].FileName \in expected
            /\ \A j \in 1..Len(submitted) :
                  submitted[j].FileName = submitted[i].FileName => j = i
      /\ prod = Len(entries) + 1 =>
            {submitted[i].FileName : i \in 1..Len(submitted)} = expected
      /\ \A i \in 1..Len(fileChan) : fileChan[i].FileName \in expected
      /\ \A w \in Workers : Holding(w) => task[w].FileName \in expected
      /\ \A n \in Names \ expected :
            /\ nAttempt[n] = 0
            /\ abandoned[n] = 0
            /\ n \in EntryNames(entries) => n \in fs

\* C10 witness: the listing holds a directory whose name ends with the
\* extension and a matching file; the producer has finished and enqueued the
\* file alone, which has been attempted.
C10_Witness ==
    /\ fileClosed
    /\ Len(entries) = 2
    /\ \E i \in 1..2 : entries[i].IsDir /\ EndsWithExtension(entries[i].Name)
    /\ Len(submitted) = 1
    /\ nAttempt[submitted[1].FileName] >= 1

\* C11: a matching file whose every attempt ended in the timeout case has had
\* maxRetries + 1 attempts when the run ends (1 attempt and no re-enqueue with
\* maxRetries = 0) and exactly one terminal error, a timeout error.
C11_AlwaysTimingOutFile ==
    \A n \in MatchingNames(entries) :
        (Ended /\ nAttempt[n] >= 1 /\ nTimeout[n] = nAttempt[n]) =>
            /\ nAttempt[n] = maxRetries + 1
            /\ ErrCountOf(n, "timeout") = 1
            /\ ErrCount(n) = 1
            /\ nDeleted[n] = 0

\* C12: when every delete operation returned nil before the deadline of its
\* attempt, a run that has returned has returned success, has started exactly
\* one delete per non-directory entry ending with the extension (no retry),
\* and has left every other entry alone.
C12_AllDeletesSucceedInTime ==
    (Returned /\ allOnTime) =>
        /\ ~result.failed
        /\ \A n \in Names :
              nAttempt[n] = IF n \in ExpectedNames THEN 1 ELSE 0
        /\ \A n \in EntryNames(entries) \ ExpectedNames : n \in fs

\* C13: when no entry is a non-directory ending with the extension, no worker
\* ever receives a task and no delete is started, a worker leaves its loop only
\* on the closed, empty queue, the run is never stuck before it has returned,
\* and when it has returned it returned success with every worker exited.
C13_NoMatchingEntries ==
    ExpectedNames = {} =>
        /\ \A n \in Names : nAttempt[n] = 0 /\ abandoned[n] = 0
        /\ fs = EntryNames(entries)
        /\ \A w \in Workers :
              /\ pc[w] \in {"recv", "done", "idle"}
              /\ task[w] = NoTask
              /\ pc[w] = "done" => (fileClosed /\ fileChan = <<>>)
        /\ ~crashed
        /\ Returned =>
              /\ ~result.failed
              /\ \A w \in 1..workerCount : pc[w] = "done"
        /\ Returned \/ ENABLED Next

\* C13 witness: a run on two entries, none matching, with two workers has returned.
C13_Witness ==
    /\ ExpectedNames = {}
    /\ Len(entries) = 2
    /\ workerCount = 2
    /\ Returned

\* C14: every task in the queue or held by a worker has Retries in
\* 0..maxRetries; a task being put back has been incremented from below
\* maxRetries, and a task whose attempt failed or timed out at
\* Retries = maxRetries goes to its terminal error, never back to the queue.
C14_RetriesWithinBound ==
    /\ \A i \in 1..Len(fileChan) : fileChan[i].Retries \in 0..maxRetries
    /\ \A w \in Workers :
          /\ Holding(w) => task[w].Retries \in 0..maxRetries
          /\ pc[w] \in {"requeue", "panicked"} => task[w].Retries \in 1..maxRetries
          /\ pc[w] = "emit" =>
                /\ task[w].Retries = maxRetries
                /\ pending[w].retries = maxRetries
                /\ \A i \in 1..Len(fileChan) :
                      fileChan[i].FileName # task[w].FileName

\* C14 witness: a task was put back with Retries = maxRetries = 1 and a worker
\* holds another task whose attempt failed at Retries = maxRetries.
C14_Witness ==
    /\ maxRetries = 1
    /\ \E i \in 1..Len(fileChan) : fileChan[i].Retries = maxRetries
    /\ \E w \in Workers : pc[w] = "emit"

\* C15: fileChan is closed once: a closed fileChan stays closed, the step that
\* closes it is a step of the producer alone, taken after its loop has gone
\* through every entry and sent the initial task of each matching one, and a
\* run that has returned has had it closed.
C15_ClosedOnceByProducer ==
    /\ [](Returned => fileClosed)
    /\ [][/\ fileClosed => fileClosed'
          /\ (~fileClosed /\ fileClosed') =>
                /\ prod = Len(entries) + 1
                /\ {submitted[i].FileName : i \in 1..Len(submitted)} = ExpectedNames
                /\ Len(submitted) = Cardinality(ExpectedNames)
                /\ UNCHANGED <<prod, fileChan, pc, task, wg, mainPc>>]_vars

\* C15 witness: fileChan is closed after two initial tasks were sent, while a
\* worker is still in an attempt.
C15_Witness ==
    /\ fileClosed
    /\ Len(submitted) = 2
    /\ \E w \in Workers : pc[w] = "select"

\* Worker w is out of its "for task := range fileChan" loop: the loop ended, or
\* a panic in its body unwound the goroutine.
LeftLoop(w) == pc[w] \in {"done", "panicked"}

\* Worker w saw fileChan closed and empty: its range loop ended.
SawClosedEmpty(w) == pc[w] = "done"

\* The driver is past wg.Wait(): it has closed errorChan and reads it.
DriverReading == mainPc \in {"collect", "returned"}

\* C16: the driver closes and reads errorChan only when every started worker is
\* out of its loop; a worker out of its loop has seen fileChan closed and
\* empty, and fileChan is then closed and empty; no worker can send a terminal
\* error once the driver reads.
C16_CollectAfterWorkersExit ==
    /\ (errorClosed \/ DriverReading) =>
          /\ errorClosed
          /\ \A w \in 1..workerCount : LeftLoop(w)
    /\ \A w \in 1..workerCount :
          LeftLoop(w) => (SawClosedEmpty(w) /\ fileClosed /\ fileChan = <<>>)
    /\ DriverReading =>
          /\ \A w \in Workers : pc[w] \notin {"select", "requeue", "emit"}
          /\ Len(errorChan) <= Len(emitted)

\* The producer is at a send: its loop is at an entry that passes the filter.
ProducerAtSend == prod <= Len(entries) /\ Matches(entries[prod])

\* C17: whenever the producer or a re-enqueuing worker is at its send on
\* fileChan, fileChan holds at most len(files) - 1 tasks, so the send finds
\* room; fileChan never holds more than len(files) tasks.
C17_EnqueueNeverBlocks ==
    /\ Len(fileChan) <= Cap
    /\ ProducerAtSend => Len(fileChan) + 1 <= Cap
    /\ \A w \in Workers : pc[w] = "requeue" => Len(fileChan) + 1 <= Cap

\* C17 witness: a worker is at its re-enqueue on the open fileChan of capacity 2
\* while the other task is buffered, and the producer has no send left.
C17_Witness ==
    /\ Cap = 2
    /\ ~fileClosed
    /\ Len(fileChan) = Cap - 1
    /\ \E w \in Workers : pc[w] = "requeue"

\* C19: errorChan never holds more than len(files) errors; at most one terminal
\* error is sent per matching file and none for any other name; a worker at
\* its send on errorChan finds room, on the channel not yet closed.
C19_ErrorsWithinCapacity ==
    LET expected == ExpectedNames
    IN
      /\ Len(errorChan) <= Cap
      /\ \A n \in Names : ErrCount(n) <= IF n \in expected THEN 1 ELSE 0
      /\ \A w \in Workers :
            pc[w] = "emit" => (Len(errorChan) + 1 <= Cap /\ ~errorClosed)

\* C19 witness: errorChan is full, with the terminal errors of two files, before
\* the driver drains it.
C19_Witness ==
    /\ Cap = 2
    /\ Len(errorChan) = Cap
    /\ mainPc = "wait"

\* The delete of worker w's attempt returned nil before the attempt's deadline
\* passed, and the worker has not handled the attempt yet.
SucceededInTime(w) ==
    /\ pc[w] = "select"
    /\ errChan[w] = <<"nil">>
    /\ early[w]

\* C18: when the delete of an attempt returned nil before the attempt's
\* deadline, the step in which the worker handles the attempt is the success
\* outcome: the file is reported deleted and the task dropped, with nothing
\* sent to fileChan or errorChan and Retries not incremented.
C18_InTimeSuccessIsTaken ==
    [][\A w \in Workers :
          (SucceededInTime(w) /\ pc'[w] # "select") =>
              /\ pc'[w] = "recv"
              /\ task'[w] = NoTask
              /\ nDeleted'[task[w].FileName] = nDeleted[task[w].FileName] + 1
              /\ nTimeout' = nTimeout
              /\ pending' = pending
              /\ fileChan' = fileChan
              /\ errorChan' = errorChan]_vars

\* C20: the errChan of an attempt never holds more than one result; while the
\* attempt's delete goroutine has not sent, the channel is empty, so its one
\* send finds room; a result in the channel is the one the attempt's own
\* goroutine sent, in the attempt the worker is waiting on; a delete goroutine
\* left behind by a timeout can always deliver, and what it delivers reaches no
\* worker's channel.
C20_OwnSingleSlotSignal ==
    /\ \A w \in Workers :
          /\ Len(errChan[w]) <= 1
          /\ running[w] => (pc[w] = "select" /\ errChan[w] = <<>>)
          /\ errChan[w] # <<>> => (pc[w] = "select" /\ ~running[w])
          /\ pc[w] = "select" => (running[w] \/ errChan[w] # <<>>)
    /\ \A n \in Names :
          (abandoned[n] > 0 /\ ~crashed) => ENABLED AbandonedDelete(n)

\* C20 witness: a later attempt on a file holds its own result while the delete
\* goroutine of an earlier, timed-out attempt on that file has not delivered yet.
C20_Witness ==
    \E w \in Workers :
        /\ pc[w] = "select"
        /\ task[w].Retries > 0
        /\ errChan[w] # <<>>
        /\ abandoned[task[w].FileName] > 0

====
